---------------------------- MODULE Spec2Model ----------------------------
(***************************************************************************)
(* Model of src/eventlog.rs: a tracing Layer that renders each event into  *)
(* one record of the Windows event log.                                    *)
(*                                                                         *)
(* Text is a sequence of one-character strings.  Integers of the event     *)
(* model are sequences of 16-bit limbs, most significant limb first (four  *)
(* limbs for u64/i64, eight for u128/i128, two for u32), signed ones in    *)
(* two's complement, so that the range checks and the `as u32` casts of    *)
(* the source keep their width.  Option<T> is a sequence of length <= 1.   *)
(***************************************************************************)
EXTENDS Integers, Sequences, FiniteSets, TLC

---------------------------------------------------------------------------
(* Bounds of the model.                                                    *)

\* Fields of one event.
MaxFields == 2
\* Depth of the span chain of the current span (0 = no current span).
MaxDepth == 3
\* on_event calls in one behaviour of Spec.
MaxEvents == 4
\* Application threads delivering events in Spec.
NumThreads == 3

---------------------------------------------------------------------------
(* Option<T>                                                               *)

None == <<>>

Some(x) == <<x>>

\* Option::unwrap_or
unwrap_or(o, d) == IF o = None THEN d ELSE o[1]

---------------------------------------------------------------------------
(* Text                                                                    *)

BS == "\\"

QUOTE == "\""

NL == "\n"

RECURSIVE Concat(_)
\* Concatenation of a sequence of texts.
Concat(ts) == IF ts = <<>> THEN <<>> ELSE Head(ts) \o Concat(Tail(ts))

RECURSIVE Join(_, _)
\* [String]::join
Join(ts, sep) ==
  IF ts = <<>> THEN <<>>
  ELSE IF Len(ts) = 1 THEN ts[1]
  ELSE ts[1] \o sep \o Join(Tail(ts), sep)

\* Iterator::rev().collect()
Rev(s) == [i \in 1..Len(s) |-> s[Len(s) + 1 - i]]

UpperAlpha == <<"A","B","C","D","E","F","G","H","I","J","K","L","M",
                "N","O","P","Q","R","S","T","U","V","W","X","Y","Z">>

LowerAlpha == <<"a","b","c","d","e","f","g","h","i","j","k","l","m",
                "n","o","p","q","r","s","t","u","v","w","x","y","z">>

\* char::to_lowercase on the ASCII letters
LowerChar(c) ==
  IF \E i \in 1..Len(UpperAlpha) : UpperAlpha[i] = c
  THEN LowerAlpha[CHOOSE i \in 1..Len(UpperAlpha) : UpperAlpha[i] = c]
  ELSE c

\* str::to_lowercase
to_lowercase(s) == [i \in 1..Len(s) |-> LowerChar(s[i])]

RECURSIVE replace_bs(_)
\* str::replace(r"\\", r"\"): every non-overlapping pair of backslashes,
\* found left to right, becomes one backslash.
replace_bs(s) ==
  IF Len(s) < 2 THEN s
  ELSE IF s[1] = BS /\ s[2] = BS
       THEN <<BS>> \o replace_bs(SubSeq(s, 3, Len(s)))
       ELSE <<s[1]>> \o replace_bs(Tail(s))

\* <str as Debug>::fmt, one character
EscapeChar(c) ==
  IF c = BS THEN <<BS, BS>>
  ELSE IF c = QUOTE THEN <<BS, QUOTE>>
  ELSE IF c = NL THEN <<BS, "n">>
  ELSE <<c>>

RECURSIVE EscapeAll(_)
EscapeAll(s) == IF s = <<>> THEN <<>> ELSE EscapeChar(Head(s)) \o EscapeAll(Tail(s))

\* <str as Debug>::fmt: the text in double quotes, with backslash, double
\* quote and newline escaped.
DebugStr(s) == <<QUOTE>> \o EscapeAll(s) \o <<QUOTE>>

---------------------------------------------------------------------------
(* Integers with their width                                               *)

LimbBase == 256 * 256

DigitChars == <<"0","1","2","3","4","5","6","7","8","9">>

IsZero(limbs) == \A i \in 1..Len(limbs) : limbs[i] = 0

RECURSIVE LongDiv10(_, _)
\* Division of a limb sequence by ten, `rem` being the remainder carried in.
LongDiv10(limbs, rem) ==
  IF limbs = <<>> THEN [q |-> <<>>, r |-> rem]
  ELSE LET cur  == rem * LimbBase + Head(limbs)
           rest == LongDiv10(Tail(limbs), cur % 10)
       IN  [q |-> <<cur \div 10>> \o rest.q, r |-> rest.r]

RECURSIVE UDecimal(_)
\* <u64 as Debug>::fmt, <u128 as Debug>::fmt: the decimal digits.
UDecimal(limbs) ==
  LET d == LongDiv10(limbs, 0)
  IN  IF IsZero(d.q) THEN <<DigitChars[d.r + 1]>>
      ELSE UDecimal(d.q) \o <<DigitChars[d.r + 1]>>

RECURSIVE Increment(_)
Increment(limbs) ==
  IF limbs = <<>> THEN <<>>
  ELSE LET n == Len(limbs)
       IN  IF limbs[n] = LimbBase - 1
           THEN Increment(SubSeq(limbs, 1, n - 1)) \o <<0>>
           ELSE SubSeq(limbs, 1, n - 1) \o <<limbs[n] + 1>>

\* Two's complement negation at the width of the limb sequence.
Negate(limbs) == Increment([i \in 1..Len(limbs) |-> LimbBase - 1 - limbs[i]])

\* The sign bit of a two's complement limb sequence.
IsNegative(limbs) == limbs[1] >= LimbBase \div 2

\* <i64 as Debug>::fmt, <i128 as Debug>::fmt
IDecimal(limbs) ==
  IF IsNegative(limbs) THEN <<"-">> \o UDecimal(Negate(limbs)) ELSE UDecimal(limbs)

\* u32::MAX.into(): u32::MAX widened to n limbs.
U32MaxInto(n) == [i \in 1..n |-> IF i > n - 2 THEN LimbBase - 1 ELSE 0]

RECURSIVE LimbsLeq(_, _)
\* a <= b for unsigned limb sequences of one length
LimbsLeq(a, b) ==
  IF a = <<>> THEN TRUE
  ELSE IF Head(a) # Head(b) THEN Head(a) < Head(b)
  ELSE LimbsLeq(Tail(a), Tail(b))

\* `value as u32`: the low 32 bits.
AsU32(limbs) == SubSeq(limbs, Len(limbs) - 1, Len(limbs))

---------------------------------------------------------------------------
(* Values of the event model and their Debug rendering                     *)

\* The value kinds tracing::field::Visit distinguishes.
Kinds == {"u64", "i64", "u128", "i128", "f64", "bool", "str", "debug"}

U64(limbs) == [kind |-> "u64", v |-> limbs]

I64(limbs) == [kind |-> "i64", v |-> limbs]

U128(limbs) == [kind |-> "u128", v |-> limbs]

I128(limbs) == [kind |-> "i128", v |-> limbs]

\* An f64 that is a multiple of one half: (-1)^neg * (whole + half/2).
F64(neg, whole, half) == [kind |-> "f64", v |-> [neg |-> neg, whole |-> whole, half |-> half]]

Bool(b) == [kind |-> "bool", v |-> b]

Str(text) == [kind |-> "str", v |-> text]

\* Any other value, given by the text its Debug implementation writes.
Dbg(text) == [kind |-> "debug", v |-> text]

\* <f64 as Debug>::fmt for multiples of one half
F64Debug(f) ==
  (IF f.neg THEN <<"-">> ELSE <<>>) \o UDecimal(<<f.whole>>)
     \o <<".", IF f.half THEN "5" ELSE "0">>

\* <bool as Debug>::fmt
BoolDebug(b) == IF b THEN <<"t","r","u","e">> ELSE <<"f","a","l","s","e">>

\* format!("{value:?}")
DebugFmt(value) ==
  CASE value.kind \in {"u64", "u128"} -> UDecimal(value.v)
    [] value.kind \in {"i64", "i128"} -> IDecimal(value.v)
    [] value.kind = "f64"             -> F64Debug(value.v)
    [] value.kind = "bool"            -> BoolDebug(value.v)
    [] value.kind = "str"             -> DebugStr(value.v)
    [] value.kind = "debug"           -> value.v

---------------------------------------------------------------------------
(* EventVisitor                                                            *)

ID_NAME == <<"i","d">>

MESSAGE_NAME == <<"m","e","s","s","a","g","e">>

\* HashMap::new()
EmptyMap == [n \in {} |-> <<>>]

\* HashMap::insert
MapInsert(m, k, val) == [n \in (DOMAIN m) \cup {k} |-> IF n = k THEN val ELSE m[n]]

\* record_debug with the bug of storing the primary message among the
\* extra fields as well.
record_debug_message_kept(self, field, value) ==
  IF field = MESSAGE_NAME
  THEN [self EXCEPT !.message = Some(DebugFmt(value)),
                    !.fields = MapInsert(self.fields, field, DebugFmt(value))]
  ELSE [self EXCEPT !.fields = MapInsert(self.fields, field, DebugFmt(value))]

\* impl Visit for EventVisitor: record_debug
record_debug(self, field, value) ==
  IF field = MESSAGE_NAME
  THEN [self EXCEPT !.message = Some(DebugFmt(value))]
  ELSE [self EXCEPT !.fields = MapInsert(self.fields, field, DebugFmt(value))]

\* record_u64 with the bug of casting without the range check.
record_u64_unchecked(self, field, value) ==
  IF to_lowercase(field) = ID_NAME
  THEN [self EXCEPT !.id = Some(AsU32(value.v))]
  ELSE [self EXCEPT !.fields = MapInsert(self.fields, field, DebugFmt(value))]

\* record_u64
record_u64(self, field, value) ==
  IF to_lowercase(field) = ID_NAME /\ LimbsLeq(value.v, U32MaxInto(Len(value.v)))
  THEN [self EXCEPT !.id = Some(AsU32(value.v))]
  ELSE record_debug(self, field, value)

\* record_i64
record_i64(self, field, value) ==
  IF /\ to_lowercase(field) = ID_NAME
     /\ ~IsNegative(value.v)
     /\ LimbsLeq(value.v, U32MaxInto(Len(value.v)))
  THEN [self EXCEPT !.id = Some(AsU32(value.v))]
  ELSE record_debug(self, field, value)

\* record_f64
record_f64(self, field, value) == record_debug(self, field, value)

\* record_i128
record_i128(self, field, value) == record_debug(self, field, value)

\* record_u128
record_u128(self, field, value) == record_debug(self, field, value)

\* record_bool
record_bool(self, field, value) == record_debug(self, field, value)

\* record_str
record_str(self, field, value) == record_debug(self, field, value)

\* The callback tracing invokes for one field of the event, by value kind.
Visit(self, f) ==
  CASE f.value.kind = "u64"   -> record_u64(self, f.name, f.value)
    [] f.value.kind = "i64"   -> record_i64(self, f.name, f.value)
    [] f.value.kind = "f64"   -> record_f64(self, f.name, f.value)
    [] f.value.kind = "i128"  -> record_i128(self, f.name, f.value)
    [] f.value.kind = "u128"  -> record_u128(self, f.name, f.value)
    [] f.value.kind = "bool"  -> record_bool(self, f.name, f.value)
    [] f.value.kind = "str"   -> record_str(self, f.name, f.value)
    [] f.value.kind = "debug" -> record_debug(self, f.name, f.value)

RECURSIVE EventRecord(_, _)
\* event.record(&mut visitor): one callback per field, in the event's order.
EventRecord(visitor, fields) ==
  IF fields = <<>> THEN visitor
  ELSE EventRecord(Visit(visitor, Head(fields)), Tail(fields))

---------------------------------------------------------------------------
(* Handles                                                                 *)

\* The conversion with the bug of not carrying the pointer over.
HandleFrom_null(value) == 0

\* impl From<EventSourceHandle> for HANDLE
HandleFrom(value) == value.hwnd

\* impl From<HANDLE> for EventSourceHandle
EventSourceHandleFrom(value) == [hwnd |-> value]

---------------------------------------------------------------------------
(* on_event                                                                *)

Levels == {"ERROR", "WARN", "INFO", "DEBUG", "TRACE"}

\* The EventVisitor on_event builds for an event of level `level`.
NewVisitor(self, level) ==
  [event_source |-> HandleFrom(self.event_source),
   default_id   |-> self.default_id,
   id           |-> None,
   message      |-> None,
   parents      |-> None,
   log_level    |-> level,
   fields       |-> EmptyMap]

RECURSIVE WalkParents(_, _, _)
\* The while-let loop over current_span.parent(): `ctx` is the span chain,
\* outermost first, `cur` the index of current_span.  Yields the names
\* pushed and the name of the span the walk ends at.
WalkParents(ctx, cur, parents) ==
  IF cur > 1
  THEN WalkParents(ctx, cur - 1, Append(parents, ctx[cur - 1]))
  ELSE [parents |-> parents, name |-> ctx[cur]]

SLASH == <<" ", "/", " ">>

\* The value given to visitor.parents; ctx = <<>> is "no current span".
SpanTrail(ctx) ==
  LET walk    == WalkParents(ctx, Len(ctx), <<>>)
      parents == IF ctx = <<>> THEN <<>> ELSE walk.parents
      span    == IF ctx = <<>> THEN None ELSE Some(walk.name)
  IN  IF parents = <<>> THEN span
      ELSE Some(Join(Rev(parents), SLASH))

\* on_event up to the call of visitor.log()
PrepareVisitor(self, event) ==
  [EventRecord(NewVisitor(self, event.level), event.fields)
     EXCEPT !.parents = SpanTrail(event.ctx)]

ZeroU32 == <<0, 0>>

\* The identifier EventVisitor::log resolves.
LogId(self) == unwrap_or(self.id, unwrap_or(self.default_id, ZeroU32))

SOURCE_PREFIX == <<"s","o","u","r","c","e",":"," ">>

COLON == <<":", " ">>

\* One extra-field line of EventVisitor::log.
FieldLine(name, text) == name \o COLON \o DebugStr(replace_bs(text)) \o <<NL>>

\* LogMessage with the bug of writing the ancestry line first.
LogMessage_source_first(self, order) ==
  (IF self.parents # None THEN SOURCE_PREFIX \o self.parents[1] \o <<NL>> ELSE <<>>)
    \o (IF self.message # None THEN self.message[1] \o <<NL, NL>> ELSE <<>>)
    \o Concat([i \in 1..Len(order) |-> FieldLine(order[i], self.fields[order[i]])])

\* The message EventVisitor::log assembles; `order` is the order in which
\* the HashMap yields its keys.
LogMessage(self, order) ==
  (IF self.message # None THEN self.message[1] \o <<NL, NL>> ELSE <<>>)
    \o (IF self.parents # None THEN SOURCE_PREFIX \o self.parents[1] \o <<NL>> ELSE <<>>)
    \o Concat([i \in 1..Len(order) |-> FieldLine(order[i], self.fields[order[i]])])

\* EventType with the bug of a warning falling into the last match arm.
EventType_warn_as_info(level) ==
  CASE level = "ERROR" -> "EVENTLOG_ERROR_TYPE"
    [] level \in {"WARN", "INFO", "DEBUG", "TRACE"} -> "EVENTLOG_INFORMATION_TYPE"

\* The event type write_to_event_log derives from the level.
EventType(level) ==
  CASE level = "ERROR" -> "EVENTLOG_ERROR_TYPE"
    [] level = "WARN"  -> "EVENTLOG_WARNING_TYPE"
    [] level \in {"INFO", "DEBUG", "TRACE"} -> "EVENTLOG_INFORMATION_TYPE"

\* The arguments write_to_event_log hands to ReportEventW.
write_to_event_log(event_source, event_id, level, message) ==
  [hEventLog |-> event_source,
   wType     |-> EventType(level),
   dwEventID |-> event_id,
   message   |-> message]

\* EventVisitor::log
log(self, order) ==
  write_to_event_log(self.event_source, LogId(self), self.log_level,
                     LogMessage(self, order))

\* write_to_event_log with the bug of dropping the result of ReportEventW.
ReportFailureSilent(result) == 0

\* What write_to_event_log prints with eprintln! for a result of ReportEventW.
ReportFailureLines(result) == IF result = "Err" THEN 1 ELSE 0

\* The orders in which a HashMap may yield the keys of `m`.
KeyOrders(m) ==
  LET keys == DOMAIN m
  IN  {o \in [1..Cardinality(keys) -> keys] :
         \A i, j \in 1..Cardinality(keys) : o[i] = o[j] => i = j}

---------------------------------------------------------------------------
(* Inputs                                                                  *)

Field(name, value) == [name |-> name, value |-> value]

Event(level, fields, ctx) == [level |-> level, fields |-> fields, ctx |-> ctx]

PORT == <<"p","o","r","t">>

PATH == <<"p","a","t","h">>

STARTED == <<"s","t","a","r","t","e","d">>

\* 2^32 + 5 as a u64: above u32::MAX, and 5 when cut to 32 bits.
Big64 == <<0, 1, 0, 5>>

\* u32::MAX as a 64-bit integer.
Max32As64 == <<0, 0, LimbBase - 1, LimbBase - 1>>

MinusOne64 == <<LimbBase - 1, LimbBase - 1, LimbBase - 1, LimbBase - 1>>

\* A field name that reads like the start of the ancestry line.
SOURCE_NAME == <<"s","o","u","r","c","e">>

\* The fields events are built from: every value kind, the identifier
\* name in two spellings with values inside, at the edge of and outside the
\* u32 range, texts with single and with double backslashes, and a field
\* named "source".
FieldPool ==
  { Field(ID_NAME,          U64(<<0, 0, 0, 42>>)),
    Field(<<"I","D">>,      I64(Max32As64)),
    Field(ID_NAME,          U64(Big64)),
    Field(ID_NAME,          I64(MinusOne64)),
    Field(ID_NAME,          I128(<<0, 0, 0, 0, 0, 0, 0, 42>>)),
    Field(MESSAGE_NAME,     Dbg(STARTED)),
    Field(MESSAGE_NAME,     U128(<<0, 0, 0, 0, 0, 0, 0, 7>>)),
    Field(PORT,             I64(<<0, 0, 0, 8080>>)),
    Field(PATH,             Str(<<"a", BS, "b">>)),
    Field(PATH,             Dbg(<<"x", BS, BS, "y">>)),
    Field(<<"r","a","t","e">>, F64(FALSE, 1, TRUE)),
    Field(SOURCE_NAME,      Bool(TRUE)) }

RECURSIVE SeqsUpTo(_, _)
\* The sequences over S of length at most n.
SeqsUpTo(S, n) ==
  IF n = 0 THEN {<<>>}
  ELSE LET shorter == SeqsUpTo(S, n - 1)
       IN  shorter \cup {Append(s, x) : s \in shorter, x \in S}

SpanNames == <<<<"r","o","o","t">>, <<"m","i","d">>, <<"l","e","a","f">>>>

\* The name of the i-th span of a chain of n spans, the last three being
\* root, mid and leaf.
SpanName(i, n) ==
  IF n - i < Len(SpanNames) THEN SpanNames[Len(SpanNames) - (n - i)]
  ELSE <<"s">> \o UDecimal(<<i>>)

\* The span chain of depth n, outermost span first, current span last.
Chain(n) == [i \in 1..n |-> SpanName(i, n)]

Chains == {Chain(n) : n \in 0..MaxDepth}

DefaultIds == {None, Some(<<0, 7>>)}

\* The events of SpecRender.
RenderEvents ==
  {Event(l, fs, c) : l \in Levels, fs \in SeqsUpTo(FieldPool, MaxFields), c \in Chains}

\* The events the threads of Spec deliver.
EventPool ==
  { Event("INFO", <<Field(MESSAGE_NAME, Dbg(STARTED)),
                    Field(ID_NAME, U64(<<0, 0, 0, 42>>)),
                    Field(PORT, I64(<<0, 0, 0, 8080>>))>>, <<>>),
    Event("ERROR", <<Field(ID_NAME, U64(Big64))>>, Chain(3)),
    Event("WARN", <<>>, <<>>),
    Event("DEBUG", <<Field(PATH, Str(<<"a", BS, "b">>)),
                     Field(SOURCE_NAME, Bool(TRUE))>>, Chain(1)) }

LogNames == {<<"a","p","p">>}

\* The handles RegisterEventSourceW may return.
Handles == {1, 2}

Threads == 1..NumThreads

---------------------------------------------------------------------------
(* State                                                                   *)

VARIABLES
  layer,    \* the EventLogLayer: its lifecycle state and its two fields
  os,       \* the native facility: open handles and the calls it has seen
  stderr,   \* lines written with eprintln!
  pc,       \* per thread: "idle", or "ReportEventW" inside the native write
  cur,      \* per thread: the event on_event was called with
  visitor,  \* per thread: the EventVisitor of the running on_event
  call,     \* per thread: the arguments of the running ReportEventW
  stats,    \* on_event calls entered and returned, writes that failed
  newResult,\* what the constructor returned to its caller
  input     \* SpecRender: the default identifier and the event under test

vars == <<layer, os, stderr, pc, cur, visitor, call, stats, newResult, input>>

\* Result<Self, windows_result::Error>: Ok(Self { event_source, default_id })
Ok(event_source, default_id) ==
  [tag |-> "Ok", event_source |-> event_source, default_id |-> default_id]

\* Err(windows_result::Error::from_win32())
Err == [tag |-> "Err", event_source |-> None, default_id |-> None]

NoLayer == [state |-> "unbuilt", event_source |-> None, default_id |-> None]

NoInput == [default_id |-> None, event |-> Event("INFO", <<>>, <<>>)]

OsInit ==
  [open |-> {}, issued |-> None, source |-> None, nRegister |-> 0,
   nRefused |-> 0, nDeregister |-> 0, nReport |-> 0, nStray |-> 0]

ThreadsInit ==
  /\ pc = [t \in Threads |-> "idle"]
  /\ cur = [t \in Threads |-> None]
  /\ visitor = [t \in Threads |-> None]
  /\ call = [t \in Threads |-> None]
  /\ stats = [nOnEvent |-> 0, nReturned |-> 0, nFailed |-> 0]
  /\ stderr = 0

Init ==
  /\ layer = NoLayer
  /\ os = OsInit
  /\ newResult = None
  /\ input = NoInput
  /\ ThreadsInit

---------------------------------------------------------------------------
(* Operations                                                              *)

\* new_with_default_id with the bug of not looking at the result of
\* RegisterEventSourceW: a refusal yields a layer around the null handle.
new_with_default_id_unchecked(log_name, default_id) ==
  /\ layer.state = "unbuilt"
  /\ \/ \E h \in Handles \ os.open :
          /\ os' = [os EXCEPT !.open = @ \cup {h}, !.issued = Some(h),
                              !.source = Some(log_name), !.nRegister = @ + 1]
          /\ layer' = [state |-> "live",
                       event_source |-> EventSourceHandleFrom(h),
                       default_id |-> default_id]
          /\ newResult' = Some(Ok(EventSourceHandleFrom(h), default_id))
     \/ /\ os' = [os EXCEPT !.nRefused = @ + 1]
        /\ layer' = [state |-> "live",
                     event_source |-> EventSourceHandleFrom(0),
                     default_id |-> default_id]
        /\ newResult' = Some(Ok(EventSourceHandleFrom(0), default_id))
  /\ UNCHANGED <<stderr, pc, cur, visitor, call, stats, input>>

\* EventLogLayer::new_with_default_id: RegisterEventSourceW either returns
\* a handle that is not open yet, or refuses.
new_with_default_id(log_name, default_id) ==
  /\ layer.state = "unbuilt"
  /\ \/ \E h \in Handles \ os.open :
          /\ os' = [os EXCEPT !.open = @ \cup {h}, !.issued = Some(h),
                              !.source = Some(log_name), !.nRegister = @ + 1]
          /\ layer' = [state |-> "live",
                       event_source |-> EventSourceHandleFrom(h),
                       default_id |-> default_id]
          /\ newResult' = Some(Ok(EventSourceHandleFrom(h), default_id))
     \/ /\ os' = [os EXCEPT !.nRefused = @ + 1]
        /\ layer' = [layer EXCEPT !.state = "failed"]
        /\ newResult' = Some(Err)
  /\ UNCHANGED <<stderr, pc, cur, visitor, call, stats, input>>

\* EventLogLayer::new
new(log_name) == new_with_default_id(log_name, None)

\* Layer::on_event, up to the point where write_to_event_log has called
\* ReportEventW.  The layer is borrowed for the call, so it is live.
on_event(t, event) ==
  /\ layer.state = "live"
  /\ pc[t] = "idle"
  /\ stats.nOnEvent < MaxEvents
  /\ LET v == PrepareVisitor(layer, event)
     IN  \E order \in KeyOrders(v.fields) :
           /\ visitor' = [visitor EXCEPT ![t] = Some(v)]
           /\ call' = [call EXCEPT ![t] = Some(log(v, order))]
  /\ cur' = [cur EXCEPT ![t] = Some(event)]
  /\ pc' = [pc EXCEPT ![t] = "ReportEventW"]
  /\ stats' = [stats EXCEPT !.nOnEvent = @ + 1]
  /\ UNCHANGED <<layer, os, stderr, newResult, input>>

\* ReportEventW returns to write_to_event_log, which prints a failure and
\* returns; log and on_event return after it.  A handle that is not open
\* makes the native call fail.
ReportEventW(t) ==
  /\ pc[t] = "ReportEventW"
  /\ \E result \in {"Ok", "Err"} :
       /\ call[t][1].hEventLog \notin os.open => result = "Err"
       /\ os' = [os EXCEPT !.nReport = @ + 1,
                           !.nStray = @ + (IF call[t][1].hEventLog \in os.open
                                           THEN 0 ELSE 1)]
       /\ stderr' = stderr + ReportFailureLines(result)
       /\ stats' = [stats EXCEPT !.nReturned = @ + 1,
                                 !.nFailed = @ + (IF result = "Err" THEN 1 ELSE 0)]
  /\ pc' = [pc EXCEPT ![t] = "idle"]
  /\ cur' = [cur EXCEPT ![t] = None]
  /\ visitor' = [visitor EXCEPT ![t] = None]
  /\ call' = [call EXCEPT ![t] = None]
  /\ UNCHANGED <<layer, newResult, input>>

\* The handle Drop hands to DeregisterEventSource.
DropHandle(self) == HandleFrom(self.event_source)

\* impl Drop for EventLogLayer.  drop takes the layer by unique reference:
\* no on_event call, which borrows it, is running.
drop ==
  /\ layer.state = "live"
  /\ \A t \in Threads : pc[t] = "idle"
  /\ LET h == DropHandle(layer)
     IN  os' = [os EXCEPT !.open = @ \ {h}, !.nDeregister = @ + 1,
                          !.nStray = @ + (IF h \in os.open THEN 0 ELSE 1)]
  /\ layer' = [layer EXCEPT !.state = "dropped"]
  /\ UNCHANGED <<stderr, pc, cur, visitor, call, stats, newResult, input>>

---------------------------------------------------------------------------
(* Spec: one layer, built once, used by several threads, then dropped.     *)

New == \E n \in LogNames : new(n)

NewWithDefaultId ==
  \E n \in LogNames, d \in DefaultIds \ {None} : new_with_default_id(n, d)

OnEvent == \E t \in Threads, e \in EventPool : on_event(t, e)

Report == \E t \in Threads : ReportEventW(t)

Drop == drop

Next == New \/ NewWithDefaultId \/ OnEvent \/ Report \/ Drop

Spec == Init /\ [][Next]_vars

---------------------------------------------------------------------------
(* SpecRender: a live layer renders one event drawn from RenderEvents.     *)

InitRender ==
  /\ input \in [default_id : DefaultIds, event : RenderEvents]
  /\ \E h \in {CHOOSE x \in Handles : TRUE} :
       /\ layer = [state |-> "live", event_source |-> EventSourceHandleFrom(h),
                   default_id |-> input.default_id]
       /\ os = [OsInit EXCEPT !.open = {h}, !.issued = Some(h),
                              !.source = Some(CHOOSE n \in LogNames : TRUE),
                              !.nRegister = 1]
  /\ newResult = Some(Ok(layer.event_source, layer.default_id))
  /\ ThreadsInit

OnEventRender == stats.nOnEvent = 0 /\ on_event(1, input.event)

ReportRender == ReportEventW(1)

NextRender == OnEventRender \/ ReportRender

SpecRender == InitRender /\ [][NextRender]_vars

---------------------------------------------------------------------------
(* Vocabulary of the properties                                            *)

InFlight(t) == pc[t] = "ReportEventW"

IsPrefix(p, s) == Len(p) <= Len(s) /\ SubSeq(s, 1, Len(p)) = p

\* The index of the first newline of a text, 0 if it has none.
FirstNL(text) ==
  IF \E i \in 1..Len(text) : text[i] = NL
  THEN CHOOSE i \in 1..Len(text) : text[i] = NL /\ \A j \in 1..(i - 1) : text[j] # NL
  ELSE 0

RECURSIVE Lines(_)
\* The lines of a text, without their terminators.
Lines(text) ==
  IF text = <<>> THEN <<>>
  ELSE LET k == FirstNL(text)
       IN  IF k = 0 THEN <<text>>
           ELSE <<SubSeq(text, 1, k - 1)>> \o Lines(SubSeq(text, k + 1, Len(text)))

\* How many lines of `text` satisfy P.
CountLines(text, P(_)) ==
  LET ls == Lines(text) IN Cardinality({i \in 1..Len(ls) : P(ls[i])})

IdSpellings == {<<"i","d">>, <<"I","d">>, <<"i","D">>, <<"I","D">>}

IntegerKinds == {"u64", "i64", "u128", "i128"}

\* An integer value within [0, 2^32-1]: all limbs above the low two are 0.
InU32Range(value) ==
  /\ value.kind \in IntegerKinds
  /\ \A i \in 1..(Len(value.v) - 2) : value.v[i] = 0

\* The u32 that equals an integer value within [0, 2^32-1].
U32Of(value) == <<value.v[Len(value.v) - 1], value.v[Len(value.v)]>>

\* The fields of an event the source takes as the identifier.
AcceptedIdx(e) ==
  {i \in 1..Len(e.fields) :
     /\ e.fields[i].name \in IdSpellings
     /\ e.fields[i].value.kind \in {"u64", "i64"}
     /\ InU32Range(e.fields[i].value)}

MessageIdx(e) == {i \in 1..Len(e.fields) : e.fields[i].name = MESSAGE_NAME}

ExtraIdx(e) == (1..Len(e.fields)) \ (AcceptedIdx(e) \cup MessageIdx(e))

ExtraNames(e) == {e.fields[i].name : i \in ExtraIdx(e)}

Last(S) == CHOOSE i \in S : \A j \in S : j <= i

\* The identifier configured for the layer under construction, or 0.
ConfiguredId(built) ==
  IF built.default_id = None THEN <<0, 0>> ELSE built.default_id[1]

\* The primary message block of an event: its last "message" value and a
\* blank line, or nothing.
MessageBlock(e) ==
  IF MessageIdx(e) = {} THEN <<>>
  ELSE DebugFmt(e.fields[Last(MessageIdx(e))].value) \o <<NL, NL>>

\* What follows the primary message block in msg (msg itself if the
\* block is not its prefix).
AfterMessage(e, msg) ==
  IF IsPrefix(MessageBlock(e), msg)
  THEN SubSeq(msg, Len(MessageBlock(e)) + 1, Len(msg)) ELSE msg

\* What follows the first line of a text.
AfterFirstLine(text) ==
  IF FirstNL(text) = 0 THEN <<>> ELSE SubSeq(text, FirstNL(text) + 1, Len(text))

\* What follows the message block and, for an event with a current span,
\* the line after it.
FieldLinesOf(e, msg) ==
  IF e.ctx = <<>> THEN AfterMessage(e, msg) ELSE AfterFirstLine(AfterMessage(e, msg))

\* msg is: the message block of e, then a "source: " line exactly if e has
\* a current span, then one line per extra field of e and nothing else.
WellFormed(e, msg) ==
  LET rest   == AfterMessage(e, msg)
      extras == FieldLinesOf(e, msg)
  IN  /\ IsPrefix(MessageBlock(e), msg)
      /\ e.ctx # <<>> => IsPrefix(SOURCE_PREFIX, rest) /\ FirstNL(rest) # 0
      /\ extras # <<>> => extras[Len(extras)] = NL
      /\ Len(Lines(extras)) = Cardinality(ExtraNames(e))
      /\ \A n \in ExtraNames(e) :
           CountLines(extras, LAMBDA l : IsPrefix(n \o COLON, l)) = 1

---------------------------------------------------------------------------
(* Properties                                                              *)

\* C1: an event whose only "id"-named field (in any letter case) is an
\* integer of any of the four integer kinds with a value in [0, 2^32-1] is
\* written with exactly that value as identifier, whatever the default.
C1_IdFromAnyIntegerKind ==
  \A t \in Threads : InFlight(t) =>
    LET e   == cur[t][1]
        ids == {i \in 1..Len(e.fields) : e.fields[i].name \in IdSpellings}
    IN  \A i \in ids :
          (ids = {i} /\ InU32Range(e.fields[i].value))
            => call[t][1].dwEventID = U32Of(e.fields[i].value)

\* C2: for an event with a current span the message has exactly one
\* ancestry line, and it names the whole chain, outermost span first and
\* the current span last, joined by " / ".
C2_TrailNamesWholeChain ==
  \A t \in Threads : (InFlight(t) /\ cur[t][1].ctx # <<>>) =>
    LET e    == cur[t][1]
        full == SOURCE_PREFIX \o Join(e.ctx, SLASH)
    IN  /\ CountLines(call[t][1].message, LAMBDA l : l = full) = 1
        /\ IsPrefix(full \o <<NL>>, AfterMessage(e, call[t][1].message))

\* C3: every extra field n with debug-rendered text v gives the line
\* "n: v'", v' being v with each pair of backslashes collapsed to one and
\* nothing else changed (no quotes, no escapes added).
C3_FieldLineIsCollapsedText ==
  \A t \in Threads : InFlight(t) =>
    \A n \in DOMAIN visitor[t][1].fields :
      LET line == n \o COLON \o replace_bs(visitor[t][1].fields[n])
      IN  CountLines(call[t][1].message, LAMBDA l : l = line) >= 1

\* C4: an event with no "id"-named integer field within [0, 2^32-1] is
\* written with the configured default identifier, or with 0 if none was
\* configured, whatever its level; a value out of range is not truncated.
C4_DefaultIdentifier ==
  \A t \in Threads : InFlight(t) =>
    LET e == cur[t][1]
    IN  (\A i \in 1..Len(e.fields) :
           ~(e.fields[i].name \in IdSpellings /\ InU32Range(e.fields[i].value)))
          => call[t][1].dwEventID = ConfiguredId(newResult[1])

C4_Witness ==
  /\ InFlight(1)
  /\ cur[1][1].level = "ERROR"
  /\ \E i \in 1..Len(cur[1][1].fields) : cur[1][1].fields[i] = Field(ID_NAME, U64(Big64))
  /\ newResult[1].default_id = Some(<<0, 7>>)
  /\ call[1][1].dwEventID = <<0, 7>>

\* C5: the source is registered once, at construction; every native write
\* uses the handle that registration returned, which the layer keeps
\* unchanged; the handle is deregistered once, at teardown, also after
\* failed writes; no native call is made on it after that.
C5_HandleLifecycle ==
  /\ os.nRegister = (IF layer.state \in {"live", "dropped"} THEN 1 ELSE 0)
  /\ os.nDeregister = (IF layer.state = "dropped" THEN 1 ELSE 0)
  /\ os.nStray = 0
  /\ layer.state \in {"live", "dropped"} =>
       /\ layer.event_source = EventSourceHandleFrom(os.issued[1])
       /\ os.open = (IF layer.state = "live" THEN {os.issued[1]} ELSE {})
  /\ \A t \in Threads : InFlight(t) =>
       /\ layer.state = "live"
       /\ call[t][1].hEventLog = os.issued[1]
  /\ os.nReport > 0 => os.nRegister = 1

C5_Witness ==
  /\ layer.state = "dropped"
  /\ os.nReport >= 2
  /\ stats.nFailed >= 1
  /\ os.open = {}

\* C6: every on_event call makes one native write attempt, also for an
\* empty message, reports a failed attempt with one line on stderr and
\* returns; failures change neither the layer nor what is written for
\* other events, which is determined by each event alone.
C6_OneAttemptPerEvent ==
  /\ stats.nOnEvent = os.nReport + Cardinality({t \in Threads : InFlight(t)})
  /\ stats.nReturned = os.nReport
  /\ stderr = stats.nFailed
  /\ layer.state = "live" =>
       /\ layer.event_source = newResult[1].event_source
       /\ layer.default_id = newResult[1].default_id
  /\ \A t \in Threads : InFlight(t) =>
       LET e == cur[t][1]
       IN  /\ call[t][1].wType \in
                {"EVENTLOG_ERROR_TYPE", "EVENTLOG_WARNING_TYPE", "EVENTLOG_INFORMATION_TYPE"}
           /\ call[t][1].dwEventID =
                (IF AcceptedIdx(e) = {} THEN ConfiguredId(newResult[1])
                 ELSE U32Of(e.fields[Last(AcceptedIdx(e))].value))
           /\ WellFormed(e, call[t][1].message)

C6_Witness ==
  /\ stats.nFailed >= 1
  /\ stderr >= 1
  /\ \E t \in Threads : InFlight(t) /\ call[t][1].message = <<>>
  /\ \E t \in Threads : InFlight(t) /\ call[t][1].message # <<>>

C9_FieldRouting ==
  \A t \in Threads : InFlight(t) =>
    LET e == cur[t][1]
        v == visitor[t][1]
        lastOf(n) == Last({i \in ExtraIdx(e) : e.fields[i].name = n})
    IN  /\ v.message = (IF MessageIdx(e) = {} THEN None
                        ELSE Some(DebugFmt(e.fields[Last(MessageIdx(e))].value)))
        /\ v.id = (IF AcceptedIdx(e) = {} THEN None
                   ELSE Some(U32Of(e.fields[Last(AcceptedIdx(e))].value)))
        /\ DOMAIN v.fields = ExtraNames(e)
        /\ MESSAGE_NAME \notin DOMAIN v.fields
        /\ \A n \in ExtraNames(e) : v.fields[n] = DebugFmt(e.fields[lastOf(n)].value)
        /\ \A i \in 1..Len(e.fields) :
             CountLines(FieldLinesOf(e, call[t][1].message),
                        LAMBDA l : IsPrefix(e.fields[i].name \o COLON, l))
               = (IF e.fields[i].name \in ExtraNames(e) THEN 1 ELSE 0)

C9_Witness ==
  /\ InFlight(1)
  /\ visitor[1][1].id = Some(<<0, 42>>)
  /\ ID_NAME \in DOMAIN visitor[1][1].fields
  /\ cur[1][1].fields[1].name = ID_NAME /\ cur[1][1].fields[2].name = ID_NAME

\* C10: the type of every write is the category of the event's own level:
\* error for error, warning for warn, informational for info, debug, trace.
C10_CategoryOfLevel ==
  \A t \in Threads : InFlight(t) =>
    LET level == cur[t][1].level
    IN  /\ level \in {"ERROR", "WARN", "INFO", "DEBUG", "TRACE"}
        /\ level = "ERROR" => call[t][1].wType = "EVENTLOG_ERROR_TYPE"
        /\ level = "WARN" => call[t][1].wType = "EVENTLOG_WARNING_TYPE"
        /\ level \in {"INFO", "DEBUG", "TRACE"}
             => call[t][1].wType = "EVENTLOG_INFORMATION_TYPE"

C10_Witness ==
  /\ InFlight(1)
  /\ cur[1][1].level = "DEBUG"
  /\ call[1][1].wType = "EVENTLOG_INFORMATION_TYPE"

=============================================================================
